---------------------------- MODULE Spec2Model ----------------------------
(***************************************************************************)
(* Domain schema of the haji/umrah marketplace (src/app/models.py): the    *)
(* persistent entities, the Create/Update request shapes, the validation   *)
(* the shapes declare, and the create / partial-update life cycle the      *)
(* entities go through in the persistence layer.                           *)
(***************************************************************************)
EXTENDS Integers, Sequences, FiniteSets, TLC

VARIABLES db, now, last, focus

vars == <<db, now, last, focus>>

(***************************************************************************)
(* Bounds of the exploration.                                              *)
(***************************************************************************)
\* Rows a table may hold.
MaxRows == 2

(***************************************************************************)
(* Python values.  Every value carries its type tag, so that values of     *)
(* different types can be compared.                                        *)
(***************************************************************************)
None == [t |-> "None"]
S(s) == [t |-> "str", v |-> s]
I(n) == [t |-> "int", v |-> n]
B(b) == [t |-> "bool", v |-> b]
DT(n) == [t |-> "datetime", v |-> n]
L(q) == [t |-> "list", v |-> q]
\* A Decimal: its digits (most significant first) and the number of them
\* that follow the decimal point.
DEC(digits, places) == [t |-> "Decimal", v |-> digits, places |-> places]

\* The string of n characters "x".
RECURSIVE Rep(_)
Rep(n) ==
    IF n <= 0 THEN ""
    ELSE IF n % 2 = 0 THEN LET h == Rep(n \div 2) IN h \o h
    ELSE "x" \o Rep(n - 1)

CharAt(s, i) == SubSeq(s, i, i)

Digits == {"0", "1", "2", "3", "4", "5", "6", "7", "8", "9"}
Lower == {"a", "b", "c", "d", "e", "f", "g", "h", "i", "j", "k", "l", "m",
          "n", "o", "p", "q", "r", "s", "t", "u", "v", "w", "x", "y", "z"}
Upper == {"A", "B", "C", "D", "E", "F", "G", "H", "I", "J", "K", "L", "M",
          "N", "O", "P", "Q", "R", "S", "T", "U", "V", "W", "X", "Y", "Z"}
AlNum == Lower \cup Upper \cup Digits

(***************************************************************************)
(* The pattern of User.email,                                              *)
(*     ^[a-zA-Z0-9_.+-]+@[a-zA-Z0-9-]+\.[a-zA-Z0-9-.]+$                    *)
(* No class holds "@", so the "@" of a match is the only one of the        *)
(* string; the "." that ends the second class is any later dot that leaves *)
(* at least one character on each side.                                    *)
(***************************************************************************)
EmailLocal == AlNum \cup {"_", ".", "+", "-"}
EmailDomain == AlNum \cup {"-"}
EmailTail == AlNum \cup {"-", "."}

EmailRegex(s) ==
    \E at \in 2..Len(s) :
        /\ CharAt(s, at) = "@"
        /\ \A i \in 1..(at - 1) : CharAt(s, i) \in EmailLocal
        /\ \E dot \in (at + 2)..(Len(s) - 1) :
              /\ CharAt(s, dot) = "."
              /\ \A j \in (at + 1)..(dot - 1) : CharAt(s, j) \in EmailDomain
              /\ \A j \in (dot + 1)..Len(s) : CharAt(s, j) \in EmailTail

\* The patterns a field may name.
RegexMatch(regex, s) ==
    CASE regex = "" -> TRUE
      [] regex = "email" -> EmailRegex(s)

(***************************************************************************)
(* Decimal(str): digits, an optional point, digits.                        *)
(***************************************************************************)
PointAt(s) ==
    IF \E i \in 1..Len(s) : CharAt(s, i) = "."
    THEN CHOOSE i \in 1..Len(s) : CharAt(s, i) = "." /\ \A j \in 1..(i - 1) : CharAt(s, j) # "."
    ELSE 0

IsDecimalString(s) ==
    LET p == PointAt(s)
    IN  /\ Len(s) > 0
        /\ \A i \in 1..Len(s) : i # p => CharAt(s, i) \in Digits
        /\ \E i \in 1..Len(s) : i # p

RECURSIVE StripZeros(_)
StripZeros(s) ==
    IF Len(s) > 1 /\ CharAt(s, 1) = "0" THEN StripZeros(SubSeq(s, 2, Len(s))) ELSE s

ParseDecimal(s) ==
    LET p == PointAt(s)
    IN  IF p = 0 THEN DEC(s, 0)
        ELSE DEC(SubSeq(s, 1, p - 1) \o SubSeq(s, p + 1, Len(s)), Len(s) - p)

\* Numeric(precision, scale) keeps `scale` digits after the point.
RECURSIVE Zeros(_)
Zeros(n) == IF n <= 0 THEN "" ELSE "0" \o Zeros(n - 1)

Quantize(d, scale) ==
    IF d.places <= scale
    THEN DEC(d.v \o Zeros(scale - d.places), scale)
    ELSE DEC(SubSeq(d.v, 1, Len(d.v) - (d.places - scale)), scale)

\* Decimal.__eq__ compares numbers, not representations.
DecimalEq(a, b) ==
    LET scale == IF a.places >= b.places THEN a.places ELSE b.places
    IN  StripZeros(Quantize(a, scale).v) = StripZeros(Quantize(b, scale).v)

\* == of two Python values.
ValEq(a, b) ==
    IF a.t = "Decimal" /\ b.t = "Decimal" THEN DecimalEq(a, b) ELSE a = b


(***************************************************************************)
(* Field(...): what a field declaration says.  A limit of -1 is a limit    *)
(* that is not declared.                                                   *)
(***************************************************************************)
Required(type) ==
    [type |-> type, optional |-> FALSE, required |-> TRUE, default |-> None,
     default_factory |-> "", max_length |-> -1, min_length |-> -1,
     ge |-> None, le |-> None, regex |-> "", enum |-> {},
     max_digits |-> -1, decimal_places |-> -1,
     unique |-> FALSE, primary_key |-> FALSE, foreign_key |-> ""]

\* name: T = Field(default=v)
Default(type, v) == [Required(type) EXCEPT !.required = FALSE, !.default = v]
\* name: Optional[T] = Field(default=None)
Optional(type) == [Required(type) EXCEPT !.required = FALSE, !.optional = TRUE]
\* name: T = Field(default_factory=f)
Factory(type, f) == [Required(type) EXCEPT !.required = FALSE, !.default_factory = f]

MaxLength(fs, n) == [fs EXCEPT !.max_length = n]
MinLength(fs, n) == [fs EXCEPT !.min_length = n]
Range(fs, lo, hi) == [fs EXCEPT !.ge = I(lo), !.le = I(hi)]
Regex(fs, r) == [fs EXCEPT !.regex = r]
Unique(fs) == [fs EXCEPT !.unique = TRUE]
PrimaryKey(fs) == [fs EXCEPT !.primary_key = TRUE]
ForeignKey(fs, k) == [fs EXCEPT !.foreign_key = k]
Digits2(fs, max_digits) == [fs EXCEPT !.max_digits = max_digits, !.decimal_places = 2]
Enum(fs, members) == [fs EXCEPT !.type = "enum", !.enum = members]

(***************************************************************************)
(* Enums                                                                   *)
(***************************************************************************)
UserRole == {"seeker", "provider", "admin"}
UserStatus == {"active", "inactive", "suspended"}
ServiceType == {"badal_haji", "badal_umrah"}
BookingStatus == {"pending", "confirmed", "in_progress", "completed", "cancelled"}
PaymentStatus == {"pending", "paid", "refunded"}
NotificationStatus == {"unread", "read"}
BlogStatus == {"draft", "published", "archived"}

(***************************************************************************)
(* Persistent models (table=True)                                          *)
(***************************************************************************)
User_email == Regex(MaxLength(Unique(Required("str")), 255), "email")

\* ProviderProfile.user_id without unique=True.
ProviderProfile_user_id_NotUnique == ForeignKey(Required("int"), "users.id")
ProviderProfile_user_id == Unique(ForeignKey(Required("int"), "users.id"))

\* Booking.status with another default.
Booking_status_Confirmed == Enum(Default("enum", S("confirmed")), BookingStatus)
Booking_status == Enum(Default("enum", S("pending")), BookingStatus)

\* Review.booking_id without unique=True.
Review_booking_id_NotUnique == ForeignKey(Required("int"), "bookings.id")
Review_booking_id == Unique(ForeignKey(Required("int"), "bookings.id"))

User ==
    [id |-> PrimaryKey(Optional("int")),
     email |-> User_email,
     password_hash |-> MaxLength(Required("str"), 255),
     full_name |-> MaxLength(Required("str"), 200),
     phone |-> MaxLength(Required("str"), 20),
     role |-> Enum(Default("enum", S("seeker")), UserRole),
     status |-> Enum(Default("enum", S("active")), UserStatus),
     avatar_url |-> MaxLength(Optional("str"), 500),
     created_at |-> Factory("datetime", "utcnow"),
     updated_at |-> Factory("datetime", "utcnow"),
     last_login |-> Optional("datetime")]

ProviderProfile ==
    [id |-> PrimaryKey(Optional("int")),
     user_id |-> ProviderProfile_user_id,
     business_name |-> MaxLength(Required("str"), 200),
     description |-> MaxLength(Required("str"), 2000),
     address |-> MaxLength(Required("str"), 500),
     city |-> MaxLength(Required("str"), 100),
     province |-> MaxLength(Required("str"), 100),
     postal_code |-> MaxLength(Required("str"), 10),
     license_number |-> MaxLength(Optional("str"), 100),
     years_experience |-> Default("int", I(0)),
     is_verified |-> Default("bool", B(FALSE)),
     is_available |-> Default("bool", B(TRUE)),
     average_rating |-> [Default("Decimal", DEC("0", 0)) EXCEPT !.max_digits = 3, !.decimal_places = 2],
     total_reviews |-> Default("int", I(0)),
     total_completed_services |-> Default("int", I(0)),
     gallery_images |-> Default("list", L(<<>>)),
     certificates |-> Default("list", L(<<>>)),
     created_at |-> Factory("datetime", "utcnow"),
     updated_at |-> Factory("datetime", "utcnow")]

Service ==
    [id |-> PrimaryKey(Optional("int")),
     provider_id |-> ForeignKey(Required("int"), "provider_profiles.id"),
     title |-> MaxLength(Required("str"), 200),
     description |-> MaxLength(Required("str"), 2000),
     service_type |-> Enum(Required("enum"), ServiceType),
     price |-> Digits2(Required("Decimal"), 12),
     duration_days |-> Default("int", I(40)),
     max_capacity |-> Default("int", I(1)),
     includes |-> Default("list", L(<<>>)),
     requirements |-> Default("list", L(<<>>)),
     is_active |-> Default("bool", B(TRUE)),
     created_at |-> Factory("datetime", "utcnow"),
     updated_at |-> Factory("datetime", "utcnow")]

Booking ==
    [id |-> PrimaryKey(Optional("int")),
     seeker_id |-> ForeignKey(Required("int"), "users.id"),
     provider_id |-> ForeignKey(Required("int"), "provider_profiles.id"),
     service_id |-> ForeignKey(Required("int"), "services.id"),
     booking_date |-> Factory("datetime", "utcnow"),
     service_start_date |-> Required("datetime"),
     service_end_date |-> Required("datetime"),
     total_amount |-> Digits2(Required("Decimal"), 12),
     status |-> Booking_status,
     payment_status |-> Enum(Default("enum", S("pending")), PaymentStatus),
     special_requests |-> MaxLength(Optional("str"), 1000),
     seeker_notes |-> MaxLength(Optional("str"), 1000),
     provider_notes |-> MaxLength(Optional("str"), 1000),
     created_at |-> Factory("datetime", "utcnow"),
     updated_at |-> Factory("datetime", "utcnow")]

ChatMessage ==
    [id |-> PrimaryKey(Optional("int")),
     sender_id |-> ForeignKey(Required("int"), "users.id"),
     receiver_id |-> ForeignKey(Required("int"), "users.id"),
     booking_id |-> ForeignKey(Optional("int"), "bookings.id"),
     message |-> MaxLength(Required("str"), 2000),
     is_read |-> Default("bool", B(FALSE)),
     created_at |-> Factory("datetime", "utcnow")]

Review ==
    [id |-> PrimaryKey(Optional("int")),
     booking_id |-> Review_booking_id,
     reviewer_id |-> ForeignKey(Required("int"), "users.id"),
     rating |-> Range(Required("int"), 1, 5),
     comment |-> MaxLength(Optional("str"), 1000),
     created_at |-> Factory("datetime", "utcnow"),
     updated_at |-> Factory("datetime", "utcnow")]

Notification ==
    [id |-> PrimaryKey(Optional("int")),
     user_id |-> ForeignKey(Required("int"), "users.id"),
     title |-> MaxLength(Required("str"), 200),
     message |-> MaxLength(Required("str"), 1000),
     status |-> Enum(Default("enum", S("unread")), NotificationStatus),
     notification_type |-> MaxLength(Required("str"), 50),
     related_id |-> Optional("int"),
     created_at |-> Factory("datetime", "utcnow")]

BlogPost ==
    [id |-> PrimaryKey(Optional("int")),
     author_id |-> ForeignKey(Required("int"), "users.id"),
     title |-> MaxLength(Required("str"), 300),
     slug |-> MaxLength(Unique(Required("str")), 300),
     content |-> Required("str"),
     excerpt |-> MaxLength(Optional("str"), 500),
     featured_image |-> MaxLength(Optional("str"), 500),
     status |-> Enum(Default("enum", S("draft")), BlogStatus),
     tags |-> Default("list", L(<<>>)),
     view_count |-> Default("int", I(0)),
     published_at |-> Optional("datetime"),
     created_at |-> Factory("datetime", "utcnow"),
     updated_at |-> Factory("datetime", "utcnow")]

SystemSettings ==
    [id |-> PrimaryKey(Optional("int")),
     key |-> MaxLength(Unique(Required("str")), 100),
     value |-> MaxLength(Required("str"), 2000),
     description |-> MaxLength(Optional("str"), 500),
     created_at |-> Factory("datetime", "utcnow"),
     updated_at |-> Factory("datetime", "utcnow")]

(***************************************************************************)
(* Non-persistent schemas (table=False)                                    *)
(***************************************************************************)
UserCreate ==
    [email |-> MaxLength(Required("str"), 255),
     password |-> MaxLength(MinLength(Required("str"), 8), 128),
     full_name |-> MaxLength(Required("str"), 200),
     phone |-> MaxLength(Required("str"), 20),
     role |-> Enum(Default("enum", S("seeker")), UserRole)]

UserLogin ==
    [email |-> MaxLength(Required("str"), 255),
     password |-> MaxLength(Required("str"), 128)]

\* UserUpdate with a role field.
UserUpdate_WithRole ==
    [full_name |-> MaxLength(Optional("str"), 200),
     phone |-> MaxLength(Optional("str"), 20),
     avatar_url |-> MaxLength(Optional("str"), 500),
     role |-> Enum(Optional("enum"), UserRole)]

UserUpdate ==
    [full_name |-> MaxLength(Optional("str"), 200),
     phone |-> MaxLength(Optional("str"), 20),
     avatar_url |-> MaxLength(Optional("str"), 500)]

ProviderProfileCreate ==
    [business_name |-> MaxLength(Required("str"), 200),
     description |-> MaxLength(Required("str"), 2000),
     address |-> MaxLength(Required("str"), 500),
     city |-> MaxLength(Required("str"), 100),
     province |-> MaxLength(Required("str"), 100),
     postal_code |-> MaxLength(Required("str"), 10),
     license_number |-> MaxLength(Optional("str"), 100),
     years_experience |-> Default("int", I(0))]

\* ProviderProfileUpdate with an average_rating field.
ProviderProfileUpdate_WithRating ==
    [business_name |-> MaxLength(Optional("str"), 200),
     description |-> MaxLength(Optional("str"), 2000),
     address |-> MaxLength(Optional("str"), 500),
     city |-> MaxLength(Optional("str"), 100),
     province |-> MaxLength(Optional("str"), 100),
     postal_code |-> MaxLength(Optional("str"), 10),
     license_number |-> MaxLength(Optional("str"), 100),
     years_experience |-> Optional("int"),
     is_available |-> Optional("bool"),
     average_rating |-> [Optional("Decimal") EXCEPT !.max_digits = 3, !.decimal_places = 2],
     gallery_images |-> Optional("list"),
     certificates |-> Optional("list")]

ProviderProfileUpdate ==
    [business_name |-> MaxLength(Optional("str"), 200),
     description |-> MaxLength(Optional("str"), 2000),
     address |-> MaxLength(Optional("str"), 500),
     city |-> MaxLength(Optional("str"), 100),
     province |-> MaxLength(Optional("str"), 100),
     postal_code |-> MaxLength(Optional("str"), 10),
     license_number |-> MaxLength(Optional("str"), 100),
     years_experience |-> Optional("int"),
     is_available |-> Optional("bool"),
     gallery_images |-> Optional("list"),
     certificates |-> Optional("list")]

ServiceCreate ==
    [title |-> MaxLength(Required("str"), 200),
     description |-> MaxLength(Required("str"), 2000),
     service_type |-> Enum(Required("enum"), ServiceType),
     price |-> Digits2(Required("Decimal"), 12),
     duration_days |-> Default("int", I(40)),
     max_capacity |-> Default("int", I(1)),
     includes |-> Default("list", L(<<>>)),
     requirements |-> Default("list", L(<<>>))]

ServiceUpdate ==
    [title |-> MaxLength(Optional("str"), 200),
     description |-> MaxLength(Optional("str"), 2000),
     price |-> Digits2(Optional("Decimal"), 12),
     duration_days |-> Optional("int"),
     max_capacity |-> Optional("int"),
     includes |-> Optional("list"),
     requirements |-> Optional("list"),
     is_active |-> Optional("bool")]

BookingCreate ==
    [service_id |-> Required("int"),
     service_start_date |-> Required("datetime"),
     special_requests |-> MaxLength(Optional("str"), 1000)]

\* BookingUpdate whose payment_status field has another name than the column.
BookingUpdate_Renamed ==
    [status |-> Enum(Optional("enum"), BookingStatus),
     payment_state |-> Enum(Optional("enum"), PaymentStatus),
     seeker_notes |-> MaxLength(Optional("str"), 1000),
     provider_notes |-> MaxLength(Optional("str"), 1000)]

\* BookingUpdate whose status field is typed with the other enum.
BookingUpdate_StatusAsPayment ==
    [status |-> Enum(Optional("enum"), PaymentStatus),
     payment_status |-> Enum(Optional("enum"), PaymentStatus),
     seeker_notes |-> MaxLength(Optional("str"), 1000),
     provider_notes |-> MaxLength(Optional("str"), 1000)]

BookingUpdate ==
    [status |-> Enum(Optional("enum"), BookingStatus),
     payment_status |-> Enum(Optional("enum"), PaymentStatus),
     seeker_notes |-> MaxLength(Optional("str"), 1000),
     provider_notes |-> MaxLength(Optional("str"), 1000)]

ChatMessageCreate ==
    [receiver_id |-> Required("int"),
     booking_id |-> Optional("int"),
     message |-> MaxLength(Required("str"), 2000)]

ReviewCreate ==
    [booking_id |-> Required("int"),
     rating |-> Range(Required("int"), 1, 5),
     comment |-> MaxLength(Optional("str"), 1000)]

\* ReviewUpdate whose rating has no bounds.
ReviewUpdate_Unbounded ==
    [rating |-> Optional("int"),
     comment |-> MaxLength(Optional("str"), 1000)]

ReviewUpdate ==
    [rating |-> Range(Optional("int"), 1, 5),
     comment |-> MaxLength(Optional("str"), 1000)]

NotificationCreate ==
    [user_id |-> Required("int"),
     title |-> MaxLength(Required("str"), 200),
     message |-> MaxLength(Required("str"), 1000),
     notification_type |-> MaxLength(Required("str"), 50),
     related_id |-> Optional("int")]

BlogPostCreate ==
    [title |-> MaxLength(Required("str"), 300),
     content |-> Required("str"),
     excerpt |-> MaxLength(Optional("str"), 500),
     featured_image |-> MaxLength(Optional("str"), 500),
     tags |-> Default("list", L(<<>>))]

BlogPostUpdate ==
    [title |-> MaxLength(Optional("str"), 300),
     content |-> Optional("str"),
     excerpt |-> MaxLength(Optional("str"), 500),
     featured_image |-> MaxLength(Optional("str"), 500),
     status |-> Enum(Optional("enum"), BlogStatus),
     tags |-> Optional("list")]

SystemSettingsCreate ==
    [key |-> MaxLength(Required("str"), 100),
     value |-> MaxLength(Required("str"), 2000),
     description |-> MaxLength(Optional("str"), 500)]

SystemSettingsUpdate ==
    [value |-> MaxLength(Required("str"), 2000),
     description |-> MaxLength(Optional("str"), 500)]

\* The tables, by __tablename__, with the model and the shapes of each.
Tables ==
    {"users", "provider_profiles", "services", "bookings", "chat_messages",
     "reviews", "notifications", "blog_posts", "system_settings"}

Model ==
    [users |-> User, provider_profiles |-> ProviderProfile, services |-> Service,
     bookings |-> Booking, chat_messages |-> ChatMessage, reviews |-> Review,
     notifications |-> Notification, blog_posts |-> BlogPost,
     system_settings |-> SystemSettings]

CreateShape ==
    [users |-> UserCreate, provider_profiles |-> ProviderProfileCreate,
     services |-> ServiceCreate, bookings |-> BookingCreate,
     chat_messages |-> ChatMessageCreate, reviews |-> ReviewCreate,
     notifications |-> NotificationCreate, blog_posts |-> BlogPostCreate,
     system_settings |-> SystemSettingsCreate]

UpdateShape ==
    [users |-> UserUpdate, provider_profiles |-> ProviderProfileUpdate,
     services |-> ServiceUpdate, bookings |-> BookingUpdate, reviews |-> ReviewUpdate,
     blog_posts |-> BlogPostUpdate, system_settings |-> SystemSettingsUpdate]

(***************************************************************************)
(* Validation of a request body against a shape.  A body is a function     *)
(* from the names it supplies to their values; a name the body does not    *)
(* hold is absent.                                                         *)
(***************************************************************************)
DecimalOk(fs, s) ==
    /\ IsDecimalString(s)
    /\ LET d == ParseDecimal(s)
           digits == Len(StripZeros(d.v))
           whole == IF digits > d.places THEN digits - d.places ELSE 0
       IN  /\ fs.decimal_places >= 0 => d.places <= fs.decimal_places
           /\ fs.max_digits >= 0 => digits <= fs.max_digits
           /\ (fs.max_digits >= 0 /\ fs.decimal_places >= 0)
                 => whole <= fs.max_digits - fs.decimal_places

\* Whether value v satisfies the declaration fs.
ValueOk(fs, v) ==
    IF v = None THEN fs.optional
    ELSE CASE fs.type = "str" ->
                 /\ v.t = "str"
                 /\ fs.max_length >= 0 => Len(v.v) <= fs.max_length
                 /\ fs.min_length >= 0 => Len(v.v) >= fs.min_length
                 /\ RegexMatch(fs.regex, v.v)
           [] fs.type = "int" ->
                 /\ v.t = "int"
                 /\ fs.ge # None => v.v >= fs.ge.v
                 /\ fs.le # None => v.v <= fs.le.v
           [] fs.type = "bool" -> v.t = "bool"
           [] fs.type = "datetime" -> v.t = "datetime"
           [] fs.type = "list" -> v.t = "list"
           [] fs.type = "enum" -> v.t = "str" /\ v.v \in fs.enum
           [] fs.type = "Decimal" -> v.t = "str" /\ DecimalOk(fs, v.v)

\* The fields a ValidationError names: a supplied value that breaks its
\* declaration, or a required field that is absent.
ValidationErrors(shape, raw) ==
    {f \in DOMAIN shape :
        IF f \in DOMAIN raw THEN ~ValueOk(shape[f], raw[f]) ELSE shape[f].required}

\* The value a validated field holds.
Coerce(fs, v) ==
    IF fs.type = "Decimal" /\ v.t = "str" THEN ParseDecimal(v.v) ELSE v

\* The fields of the shape the body supplied (extra keys are ignored).
FieldsSet(shape, raw) == DOMAIN raw \cap DOMAIN shape

\* The validated object: supplied fields coerced, the others at their default.
Parse(shape, raw) ==
    [f \in DOMAIN shape |->
        IF f \in DOMAIN raw THEN Coerce(shape[f], raw[f]) ELSE shape[f].default]

(***************************************************************************)
(* The persistence layer: rows are built from the table model, and the     *)
(* table's NOT NULL and UNIQUE constraints decide whether a write stands.  *)
(***************************************************************************)
\* What a column keeps of a value.
Store(fs, v) ==
    IF v.t = "Decimal" /\ fs.decimal_places >= 0 THEN Quantize(v, fs.decimal_places) ELSE v

\* The row of a table model built from `values`: every other column takes its
\* default, the primary key the given id, a utcnow column the current time.
NewRow(model, id, values) ==
    [f \in DOMAIN model |->
        IF f \in DOMAIN values THEN Store(model[f], values[f])
        ELSE IF model[f].primary_key THEN I(id)
        ELSE IF model[f].default_factory = "utcnow" THEN DT(now)
        ELSE Store(model[f], model[f].default)]

\* A column is nullable when its type is Optional.
NotNullOk(model, row) ==
    \A f \in DOMAIN model : row[f] = None => model[f].optional

UniqueOk(model, rows, i) ==
    \A f \in DOMAIN model :
        (model[f].unique /\ rows[i][f] # None) =>
            \A j \in 1..Len(rows) : j # i => rows[j][f] # rows[i][f]

IntegrityOk(model, rows, i) == NotNullOk(model, rows[i]) /\ UniqueOk(model, rows, i)

\* The required columns of a table model that its Create shape does not
\* carry: the caller of the persistence layer supplies them.
ServerFieldsOf(model, shape) ==
    {f \in DOMAIN model : model[f].required /\ f \notin DOMAIN shape}

ServerFields(e) == ServerFieldsOf(Model[e], CreateShape[e])

\* The stored form of a password.
HashPassword(pw) == S("hash:" \o pw.v)

\* The column values of a new row: the shape's fields that are columns, and
\* the server's.
RowValues(e, model, obj, ctx) ==
    LET server == IF e = "users"
                  THEN [f \in {"password_hash"} |-> HashPassword(obj.password)]
                  ELSE ctx
    IN  [f \in (DOMAIN obj \cap DOMAIN model) \cup DOMAIN server |->
            IF f \in DOMAIN server THEN server[f] ELSE obj[f]]

Response(op, e, raw, ctx, id, outcome, errors, before) ==
    [op |-> op, table |-> e, input |-> raw, ctx |-> ctx, id |-> id,
     outcome |-> outcome, errors |-> errors, before |-> before]

NoInput == [f \in {} |-> None]

\* The request is refused: nothing is written.
Reject(op, e, raw, ctx, id, outcome, errors) ==
    /\ last' = Response(op, e, raw, ctx, id, outcome, errors, None)
    /\ UNCHANGED <<db, now, focus>>

\* The table takes the new row if its constraints allow.
Insert(e, model, raw, ctx, rows) ==
    IF IntegrityOk(model, rows, Len(rows))
    THEN /\ Len(rows) <= MaxRows
         /\ db' = [db EXCEPT ![e] = rows]
         /\ now' = now + 1
         /\ last' = Response("create", e, raw, ctx, Len(rows), "ok", {}, None)
         /\ UNCHANGED focus
    ELSE Reject("create", e, raw, ctx, 0, "IntegrityError", {})

\* Create: validate the body against the Create shape, then insert the row.
Create(e, model, shape, raw, ctx) ==
    IF ValidationErrors(shape, raw) # {}
    THEN Reject("create", e, raw, ctx, 0, "ValidationError", ValidationErrors(shape, raw))
    ELSE Insert(e, model, raw, ctx,
                Append(db[e], NewRow(model, Len(db[e]) + 1,
                                     RowValues(e, model, Parse(shape, raw), ctx))))

\* The table takes the changed row if its constraints allow.
Replace(e, model, id, raw, rows) ==
    IF IntegrityOk(model, rows, id)
    THEN /\ db' = [db EXCEPT ![e] = rows]
         /\ last' = Response("update", e, raw, NoInput, id, "ok", {}, db[e][id])
         /\ UNCHANGED <<now, focus>>
    ELSE Reject("update", e, raw, NoInput, id, "IntegrityError", {})

\* The row with the columns the body supplied overwritten.
Patched(model, shape, raw, old) ==
    [f \in DOMAIN old |->
        IF f \in FieldsSet(shape, raw) \cap DOMAIN model
        THEN Store(model[f], Coerce(shape[f], raw[f]))
        ELSE old[f]]

\* Update: validate the body against the Update shape, then overwrite the
\* columns of row id that the body supplied.
Update(e, model, shape, id, raw) ==
    IF ValidationErrors(shape, raw) # {}
    THEN Reject("update", e, raw, NoInput, id, "ValidationError", ValidationErrors(shape, raw))
    ELSE IF id \notin 1..Len(db[e])
    THEN Reject("update", e, raw, NoInput, id, "NotFound", {})
    ELSE Replace(e, model, id, raw,
                 [db[e] EXCEPT ![id] = Patched(model, shape, raw, db[e][id])])

(***************************************************************************)
(* The requests.  A behaviour exercises one field of one table (focus):    *)
(* requests carry a valid value in every required field, and in the field  *)
(* in focus any of the values below, or nothing.                           *)
(***************************************************************************)
\* A valid value of a field.
Canonical(fs) ==
    CASE fs.type = "str" ->
             IF fs.regex = "email" THEN S("user@example.com")
             ELSE IF fs.min_length > 0 THEN S(Rep(fs.min_length))
             ELSE S("a")
      [] fs.type = "int" -> IF fs.ge # None THEN fs.ge ELSE I(1)
      [] fs.type = "bool" -> B(TRUE)
      [] fs.type = "datetime" -> DT(1)
      [] fs.type = "list" -> L(<<>>)
      [] fs.type = "enum" -> IF fs.default # None THEN fs.default
                             ELSE S(CHOOSE m \in fs.enum : TRUE)
      [] fs.type = "Decimal" -> S("10.00")

\* Values to try in a field: around each declared limit, of each enum member
\* and of none, of the wrong type, and null.
Samples(fs) ==
    {None} \cup
    CASE fs.type = "str" ->
             {S("")}
             \cup (IF fs.max_length >= 0
                   THEN {S(Rep(fs.max_length)), S(Rep(fs.max_length + 1))}
                   ELSE {S("b")})
             \cup (IF fs.min_length > 0
                   THEN {S(Rep(fs.min_length - 1)), S(Rep(fs.min_length))}
                   ELSE {})
             \cup (IF fs.regex = "email"
                   THEN {S("user@example.com"), S("not-an-email")}
                   ELSE {})
      [] fs.type = "int" ->
             {S("abc")}
             \cup (IF fs.ge # None THEN {I(fs.ge.v - 1), fs.ge} ELSE {I(0), I(2)})
             \cup (IF fs.le # None THEN {fs.le, I(fs.le.v + 1)} ELSE {})
      [] fs.type = "bool" -> {B(TRUE), B(FALSE)}
      [] fs.type = "datetime" -> {DT(2), S("tomorrow")}
      [] fs.type = "list" -> {L(<<>>), L(<<"a.png">>), S("abc")}
      [] fs.type = "enum" -> {S(m) : m \in fs.enum} \cup {S("bogus")}
      [] fs.type = "Decimal" ->
             {S("10.00"), S("10.5"), S("1.5"), S("10.005"), S("1234567890123"), S("abc")}

Override(raw, f, v) == [g \in DOMAIN raw \cup {f} |-> IF g = f THEN v ELSE raw[g]]
Remove(raw, f) == [g \in DOMAIN raw \ {f} |-> raw[g]]

\* The body that supplies exactly the required fields of a shape, each with
\* a value its column accepts too.
CanonicalRequest(model, shape) ==
    [f \in {g \in DOMAIN shape : shape[g].required} |->
        Canonical(IF f \in DOMAIN model THEN model[f] ELSE shape[f])]

\* The values to try under name f: those of each declaration of f, in the
\* table model and in its shapes.
SamplesOf(decls, f) ==
    UNION {Samples(d[f]) : d \in {x \in decls : f \in DOMAIN x}}

\* The bodies built on the given ones: each with name f set to a value of vs
\* or left out.
Variants(bases, f, vs) ==
    bases
    \cup {Override(b, f, v) : b \in bases, v \in vs}
    \cup {Remove(b, f) : b \in bases}

\* The bodies tried against a shape of a table model: the canonical body and
\* the empty one, and each with the field in focus set to a sample or left
\* out.
Requests(model, shape, decls) ==
    Variants({CanonicalRequest(model, shape), NoInput}, focus.field,
             SamplesOf(decls, focus.field))

\* The values the server supplies for the columns named in `server`, the field
\* in focus taking each of its valid samples.
ContextsOver(model, server, f) ==
    LET base == [g \in server |-> Coerce(model[g], Canonical(model[g]))]
    IN  IF f \in server
        THEN {Override(base, f, Coerce(model[f], v)) :
                 v \in {x \in Samples(model[f]) : x # None /\ ValueOk(model[f], x)}}
             \cup {base}
        ELSE {base}

\* The values the server supplies for the columns the Create shape leaves out
\* (a User's password_hash is computed from the body).
Contexts(e, model, shape) ==
    IF e = "users" THEN {NoInput}
    ELSE ContextsOver(model, ServerFieldsOf(model, shape), focus.field)

\* The names a body for table e may hold.
Names(e) ==
    DOMAIN Model[e] \cup DOMAIN CreateShape[e]
    \cup (IF e \in DOMAIN UpdateShape THEN DOMAIN UpdateShape[e] ELSE {})

Focuses ==
    UNION {{[table |-> e, field |-> f] : f \in Names(e)} : e \in Tables}

(***************************************************************************)
(* The operations, one per Create and Update shape.                        *)
(***************************************************************************)
\* Create<Model>: a <Model>Create body for the table in focus.
CreateUser ==
    /\ focus.table = "users"
    /\ \E raw \in Requests(User, UserCreate, {User, UserCreate, UserUpdate}),
          ctx \in Contexts("users", User, UserCreate) :
          Create("users", User, UserCreate, raw, ctx)

UpdateUser ==
    /\ focus.table = "users"
    /\ \E id \in 1..MaxRows, raw \in Requests(User, UserUpdate, {User, UserCreate, UserUpdate}) :
          Update("users", User, UserUpdate, id, raw)

CreateProviderProfile ==
    /\ focus.table = "provider_profiles"
    /\ \E raw \in Requests(ProviderProfile, ProviderProfileCreate, {ProviderProfile, ProviderProfileCreate, ProviderProfileUpdate}),
          ctx \in Contexts("provider_profiles", ProviderProfile, ProviderProfileCreate) :
          Create("provider_profiles", ProviderProfile, ProviderProfileCreate, raw, ctx)

UpdateProviderProfile ==
    /\ focus.table = "provider_profiles"
    /\ \E id \in 1..MaxRows, raw \in Requests(ProviderProfile, ProviderProfileUpdate, {ProviderProfile, ProviderProfileCreate, ProviderProfileUpdate}) :
          Update("provider_profiles", ProviderProfile, ProviderProfileUpdate, id, raw)

CreateService ==
    /\ focus.table = "services"
    /\ \E raw \in Requests(Service, ServiceCreate, {Service, ServiceCreate, ServiceUpdate}),
          ctx \in Contexts("services", Service, ServiceCreate) :
          Create("services", Service, ServiceCreate, raw, ctx)

UpdateService ==
    /\ focus.table = "services"
    /\ \E id \in 1..MaxRows, raw \in Requests(Service, ServiceUpdate, {Service, ServiceCreate, ServiceUpdate}) :
          Update("services", Service, ServiceUpdate, id, raw)

CreateBooking ==
    /\ focus.table = "bookings"
    /\ \E raw \in Requests(Booking, BookingCreate, {Booking, BookingCreate, BookingUpdate}),
          ctx \in Contexts("bookings", Booking, BookingCreate) :
          Create("bookings", Booking, BookingCreate, raw, ctx)

UpdateBooking ==
    /\ focus.table = "bookings"
    /\ \E id \in 1..MaxRows, raw \in Requests(Booking, BookingUpdate, {Booking, BookingCreate, BookingUpdate}) :
          Update("bookings", Booking, BookingUpdate, id, raw)

CreateChatMessage ==
    /\ focus.table = "chat_messages"
    /\ \E raw \in Requests(ChatMessage, ChatMessageCreate, {ChatMessage, ChatMessageCreate}),
          ctx \in Contexts("chat_messages", ChatMessage, ChatMessageCreate) :
          Create("chat_messages", ChatMessage, ChatMessageCreate, raw, ctx)

CreateReview ==
    /\ focus.table = "reviews"
    /\ \E raw \in Requests(Review, ReviewCreate, {Review, ReviewCreate, ReviewUpdate}),
          ctx \in Contexts("reviews", Review, ReviewCreate) :
          Create("reviews", Review, ReviewCreate, raw, ctx)

UpdateReview ==
    /\ focus.table = "reviews"
    /\ \E id \in 1..MaxRows, raw \in Requests(Review, ReviewUpdate, {Review, ReviewCreate, ReviewUpdate}) :
          Update("reviews", Review, ReviewUpdate, id, raw)

CreateNotification ==
    /\ focus.table = "notifications"
    /\ \E raw \in Requests(Notification, NotificationCreate, {Notification, NotificationCreate}),
          ctx \in Contexts("notifications", Notification, NotificationCreate) :
          Create("notifications", Notification, NotificationCreate, raw, ctx)

CreateBlogPost ==
    /\ focus.table = "blog_posts"
    /\ \E raw \in Requests(BlogPost, BlogPostCreate, {BlogPost, BlogPostCreate, BlogPostUpdate}),
          ctx \in Contexts("blog_posts", BlogPost, BlogPostCreate) :
          Create("blog_posts", BlogPost, BlogPostCreate, raw, ctx)

UpdateBlogPost ==
    /\ focus.table = "blog_posts"
    /\ \E id \in 1..MaxRows, raw \in Requests(BlogPost, BlogPostUpdate, {BlogPost, BlogPostCreate, BlogPostUpdate}) :
          Update("blog_posts", BlogPost, BlogPostUpdate, id, raw)

CreateSystemSettings ==
    /\ focus.table = "system_settings"
    /\ \E raw \in Requests(SystemSettings, SystemSettingsCreate, {SystemSettings, SystemSettingsCreate, SystemSettingsUpdate}),
          ctx \in Contexts("system_settings", SystemSettings, SystemSettingsCreate) :
          Create("system_settings", SystemSettings, SystemSettingsCreate, raw, ctx)

UpdateSystemSettings ==
    /\ focus.table = "system_settings"
    /\ \E id \in 1..MaxRows, raw \in Requests(SystemSettings, SystemSettingsUpdate, {SystemSettings, SystemSettingsCreate, SystemSettingsUpdate}) :
          Update("system_settings", SystemSettings, SystemSettingsUpdate, id, raw)

Init ==
    /\ db = [e \in Tables |-> <<>>]
    /\ now = 0
    /\ last = Response("none", "", NoInput, NoInput, 0, "", {}, None)
    /\ focus \in Focuses

Next ==
    \/ CreateUser
    \/ UpdateUser
    \/ CreateProviderProfile
    \/ UpdateProviderProfile
    \/ CreateService
    \/ UpdateService
    \/ CreateBooking
    \/ UpdateBooking
    \/ CreateChatMessage
    \/ CreateReview
    \/ UpdateReview
    \/ CreateNotification
    \/ CreateBlogPost
    \/ UpdateBlogPost
    \/ CreateSystemSettings
    \/ UpdateSystemSettings

Spec == Init /\ [][Next]_vars

(***************************************************************************)
(* Properties                                                              *)
(***************************************************************************)
RowsOf(e) == {db[e][i] : i \in 1..Len(db[e])}

\* The request just served was accepted and applied.
Applied(op, e) == last.op = op /\ last.table = e /\ last.outcome = "ok"

\* The step leaves every row but row id of table e as it was.
OthersUnchanged(e, id) ==
    \A t \in Tables :
        /\ Len(db'[t]) = Len(db[t])
        /\ \A i \in 1..Len(db[t]) : (t # e \/ i # id) => db'[t][i] = db[t][i]

\* C1: an applied update sets each field its Update shape was given to the
\* given value, and leaves every other field of the row, and every other
\* row, as it was.
C1_UpdateFrame ==
    [][(last'.op = "update" /\ last'.outcome = "ok") =>
          LET e == last'.table
              id == last'.id
              raw == last'.input
              shape == UpdateShape[e]
              supplied == FieldsSet(shape, raw)
              old == db[e][id]
              new == db'[e][id]
          IN  /\ DOMAIN new = DOMAIN old
              /\ \A f \in supplied :
                    f \in DOMAIN new /\ ValEq(new[f], Coerce(shape[f], raw[f]))
              /\ \A f \in DOMAIN old \ supplied : new[f] = old[f]
              /\ OthersUnchanged(e, id)]_vars

\* A BookingUpdate that supplied only status was applied: the status changed
\* and payment_status and the notes are those of before.
C1_Witness ==
    /\ Applied("update", "bookings")
    /\ DOMAIN last.input = {"status"}
    /\ last.before.status # last.input.status
    /\ db["bookings"][last.id].status = last.input.status
    /\ db["bookings"][last.id].payment_status = last.before.payment_status
    /\ db["bookings"][last.id].seeker_notes = last.before.seeker_notes
    /\ db["bookings"][last.id].provider_notes = last.before.provider_notes

\* C2: every Update shape accepts the body that supplies nothing, and the
\* body that supplies one field alone with a value that meets its constraint.
C2_AllOptional ==
    last.op = "update" =>
        LET shape == UpdateShape[last.table]
            supplied == FieldsSet(shape, last.input)
        IN  (\/ supplied = {}
             \/ \E f \in DOMAIN shape :
                   supplied = {f} /\ ValueOk(shape[f], last.input[f]))
            => last.outcome # "ValidationError"

\* C3: the derived columns of every stored ProviderProfile and BlogPost hold
\* their creation defaults.
C3_DerivedAtDefault ==
    /\ \A r \in RowsOf("provider_profiles") :
          /\ ValEq(r.average_rating, DEC("0", 0))
          /\ r.total_reviews = I(0)
          /\ r.total_completed_services = I(0)
          /\ r.is_verified = B(FALSE)
    /\ \A r \in RowsOf("blog_posts") : r.view_count = I(0)

\* A ProviderProfile update whose body names average_rating was applied.
C3_Witness ==
    /\ Applied("update", "provider_profiles")
    /\ "average_rating" \in DOMAIN last.input
    /\ last.input.average_rating = S("1.5")

\* The declared default of a column, as a new row holds it.
DeclaredDefault(e, f, id) ==
    LET fs == Model[e][f]
    IN  IF fs.primary_key THEN I(id)
        ELSE IF fs.default_factory = "utcnow" THEN DT(now - 1)
        ELSE Store(fs, fs.default)

C5_EmailChecked ==
    /\ (/\ last.op = "create" /\ last.table = "users"
        /\ "email" \in DOMAIN last.input
        /\ last.input.email.t = "str"
        /\ ~EmailRegex(last.input.email.v))
          => last.outcome = "ValidationError"
    /\ \A u \in RowsOf("users") : EmailRegex(u.email.v)

\* C6: a review body whose rating is outside 1..5 is rejected and changes
\* nothing, one whose rating is in 1..5 is not rejected for its rating, and
\* every stored Review has a rating in 1..5.
C6_RatingInRange ==
    [][/\ \A i \in 1..Len(db'["reviews"]) :
             LET r == db'["reviews"][i].rating
             IN  r.t = "int" /\ r.v \in 1..5
       /\ (/\ last'.table = "reviews"
           /\ "rating" \in DOMAIN last'.input
           /\ last'.input.rating.t = "int")
             => IF last'.input.rating.v \in 1..5
                THEN "rating" \notin last'.errors
                ELSE /\ last'.outcome = "ValidationError"
                     /\ "rating" \in last'.errors
                     /\ db' = db]_vars

\* A ReviewUpdate with rating 6 was rejected while a Review is stored.
C6_Witness ==
    /\ last.op = "update" /\ last.table = "reviews"
    /\ last.outcome = "ValidationError"
    /\ "rating" \in DOMAIN last.input
    /\ last.input.rating = I(6)
    /\ last.id \in 1..Len(db["reviews"])
    /\ db["reviews"][last.id].rating = I(5)

\* C7: no two ProviderProfiles share a user_id; a ProviderProfile creation
\* for a user_id that has a profile fails and changes nothing.
C7_OneProfilePerUser ==
    [][/\ \A i, j \in 1..Len(db'["provider_profiles"]) :
             i # j => db'["provider_profiles"][i].user_id # db'["provider_profiles"][j].user_id
       /\ (/\ last'.op = "create" /\ last'.table = "provider_profiles"
           /\ last'.outcome # "ValidationError"
           /\ \E r \in RowsOf("provider_profiles") : r.user_id = last'.ctx.user_id)
             => last'.outcome = "IntegrityError" /\ db' = db
       /\ (last'.op = "update" /\ last'.table = "provider_profiles")
             => \A i \in 1..Len(db["provider_profiles"]) :
                   db'["provider_profiles"][i].user_id = db["provider_profiles"][i].user_id]_vars

\* A second ProviderProfile creation for the user of the stored profile
\* failed.
C7_Witness ==
    /\ last.op = "create" /\ last.table = "provider_profiles"
    /\ last.outcome = "IntegrityError"
    /\ Len(db["provider_profiles"]) = 1
    /\ db["provider_profiles"][1].user_id = last.ctx.user_id

\* C8: no two Reviews share a booking_id; a Review creation for a booking_id
\* that has a review fails and changes nothing.
C8_OneReviewPerBooking ==
    [][/\ \A i, j \in 1..Len(db'["reviews"]) :
             i # j => db'["reviews"][i].booking_id # db'["reviews"][j].booking_id
       /\ (/\ last'.op = "create" /\ last'.table = "reviews"
           /\ last'.outcome # "ValidationError"
           /\ \E r \in RowsOf("reviews") : r.booking_id = last'.input.booking_id)
             => last'.outcome = "IntegrityError" /\ db' = db
       /\ (last'.op = "update" /\ last'.table = "reviews")
             => \A i \in 1..Len(db["reviews"]) :
                   db'["reviews"][i].booking_id = db["reviews"][i].booking_id]_vars

\* A second Review creation for the booking of the stored review failed.
C8_Witness ==
    /\ last.op = "create" /\ last.table = "reviews"
    /\ last.outcome = "IntegrityError"
    /\ Len(db["reviews"]) = 1
    /\ db["reviews"][1].booking_id = last.input.booking_id

\* The update just served, of table e, gives column f a string.
Sets(e, f) ==
    /\ last'.op = "update" /\ last'.table = e
    /\ f \in DOMAIN last'.input
    /\ last'.input[f].t = "str"

\* An update that gives column f of table e a member of its enum, whatever
\* the column holds, is not rejected for it and, the row existing, leaves the
\* column at that member; a string outside the enum is rejected.
AnyTransition(e, f, members) ==
    Sets(e, f) =>
        IF last'.input[f].v \in members
        THEN /\ f \notin last'.errors
             /\ (last'.errors = {} /\ last'.id \in 1..Len(db[e]))
                   => /\ last'.outcome = "ok"
                      /\ db'[e][last'.id][f] = last'.input[f]
        ELSE /\ last'.outcome = "ValidationError"
             /\ f \in last'.errors
             /\ db' = db

\* C9: Booking.status, Booking.payment_status and BlogPost.status go from any
\* member of their enum to any member in one update.
C9_NoTransitionRule ==
    [][/\ AnyTransition("bookings", "status", BookingStatus)
       /\ AnyTransition("bookings", "payment_status", PaymentStatus)
       /\ AnyTransition("blog_posts", "status", BlogStatus)]_vars

\* A cancelled Booking was updated to confirmed.
C9_Witness ==
    /\ Applied("update", "bookings")
    /\ last.before.status = S("cancelled")
    /\ db["bookings"][last.id].status = S("confirmed")

\* C10: a User is created with the role of the UserCreate body (seeker when
\* it gives none), and no later step changes the role, email, status or
\* password_hash of a stored User.
C10_RoleFixed ==
    [][/\ \A i \in 1..Len(db["users"]) :
             /\ db'["users"][i].role = db["users"][i].role
             /\ db'["users"][i].email = db["users"][i].email
             /\ db'["users"][i].status = db["users"][i].status
             /\ db'["users"][i].password_hash = db["users"][i].password_hash
       /\ (last'.op = "create" /\ last'.table = "users" /\ last'.outcome = "ok"
           /\ Len(db'["users"]) = Len(db["users"]) + 1)
             => db'["users"][last'.id].role =
                   IF "role" \in DOMAIN last'.input THEN last'.input.role ELSE S("seeker")]_vars

\* A body naming role admin was applied as a UserUpdate to a seeker, who is
\* a seeker still.
C10_Witness ==
    /\ Applied("update", "users")
    /\ "role" \in DOMAIN last.input
    /\ last.input.role = S("admin")
    /\ last.before.role = S("seeker")
    /\ db["users"][last.id].role = S("seeker")

=============================================================================
